---- MODULE Spec2Model ----
(***************************************************************************)
(* Model of the Kokoro TTS glue code of Hire-Mind:                         *)
(*   backend/kokoro_server.py            the persistent inference server   *)
(*   backend/kokoro/generate_aira_samples.py   the one-shot sample script  *)
(* The external pipeline, torch.load, torch.cat and soundfile are opaque:  *)
(* each call either returns or raises, chosen by the environment.          *)
(***************************************************************************)
EXTENDS Integers, Sequences, FiniteSets, TLC

(* ------------------------------------------------------------------ *)
(* Bounds of the model                                                 *)
(* ------------------------------------------------------------------ *)
\* number of torch.load calls that return a tensor during one server run
MaxLoads == 2
\* largest number of audio chunks one pipeline generator yields
MaxChunks == 1

\* worker threads of the threaded Flask server (app.run(threaded=True))
Threads == {"w1", "w2"}

(* ------------------------------------------------------------------ *)
(* Values                                                              *)
(* ------------------------------------------------------------------ *)
None == "None"
NoTensor == 0
Absent == "<absent>"

\* the literal list ['af_aoede', 'af_kore'] of the server
Selected == {"af_aoede", "af_kore"}
\* stems of the *.pt files that may lie in VOICES_DIR
VoiceFiles == {"af_aoede", "af_kore", "af_bella"}

\* JSON bodies a client can post:
\*   unparsable (or no body), null, {}, a non-empty array, a non-empty object
BodyKinds == {"unparsable", "null", "empty_object", "array", "object"}
\* value of the key 'text':  "" , a non-empty string, a number such as 5
TextValues == {Absent, "empty_str", "str", "number"}
VoiceValues == {Absent, "af_aoede", "af_kore", "af_bella"}
\* value of the key 'speed': 1.2, "fast", null, an integer of 400 digits
SpeedValues == {Absent, "1.2", "fast", "null", "10^400"}

Requests ==
  [body : BodyKinds \ {"object"}, text : {Absent}, voice : {Absent}, speed : {Absent}]
  \cup [body : {"object"}, text : TextValues, voice : VoiceValues, speed : SpeedValues]

NoReq == [body |-> "none", text |-> Absent, voice |-> Absent, speed |-> Absent]

VARIABLES
  phase,          \* "boot" | "preload" | "serving" | "exited"   (__main__ block)
  pipeline,       \* global pipeline: None or the KPipeline object
  builds,         \* number of KPipeline objects constructed
  exit_status,    \* -1 while the process lives, else the sys.exit status
  disk,           \* stems of the .pt files in VOICES_DIR
  todo,           \* files the pre-load loop has still to visit
  voice_tensors,  \* global cache: voice name -> tensor object (NoTensor: no key)
  loads,          \* tensors created by torch.load so far (object identities)
  handler         \* per worker thread: the request it is executing

server_vars == <<phase, pipeline, builds, exit_status, disk, todo, voice_tensors,
                 loads, handler>>

\* the sample generator (generate_aira_samples.py), a process of its own
VARIABLES
  gpc,            \* "off" | "start" | "list" | "loop" | "done"
  listing,        \* os.listdir(VOICES_DIR): file names, each a sequence of tokens
  voices,         \* the filtered, sorted list of {'name', 'path'}
  idx,            \* position of the `for voice_info in voices` loop
  results,        \* the list `results`
  written,        \* files sf.write has written into SAMPLES_DIR
  fed,            \* keys of the text variants passed to the pipeline
  passed,         \* voice names passed to the pipeline
  calls,          \* number of pipeline invocations
  log,            \* what the environment did to each visited voice
  gexit           \* -1 while running, else the exit status

gen_vars == <<gpc, listing, voices, idx, results, written, fed, passed, calls, log, gexit>>

vars == <<server_vars, gen_vars>>

GenOff ==
  /\ gpc = "off" /\ listing = {} /\ voices = <<>> /\ idx = 0 /\ results = <<>>
  /\ written = {} /\ fed = {} /\ passed = {} /\ calls = 0 /\ log = <<>> /\ gexit = -1

\* A worker thread: its place in the handler (pc), the request it was given (route,
\* req), the handler's locals, the steps it has started (stages), the step that
\* failed and its response.
\* A local is kept only as long as the handler still reads it.
Idle ==
  [pc |-> "idle", route |-> "", req |-> NoReq, voice |-> "", speed |-> "",
   voice_tensor |-> NoTensor, audio_segments |-> 0, stages |-> <<>>,
   failed |-> "", status |-> 0, mimetype |-> "", body |-> ""]

(* ------------------------------------------------------------------ *)
(* Start-up: the __main__ block                                        *)
(* ------------------------------------------------------------------ *)
Init ==
  /\ phase = "boot"
  /\ pipeline = None
  /\ builds = 0
  /\ exit_status = -1
  /\ disk \in SUBSET VoiceFiles
  /\ todo = {}
  /\ voice_tensors = [v \in VoiceFiles |-> NoTensor]
  /\ loads = 0
  /\ handler = [t \in Threads |-> Idle]
  /\ GenOff

\* variant: a failed construction is reported as a success
initialize_kokoro_swallow(ok) ==
  IF ok THEN [result |-> TRUE, pipeline |-> "KPipeline", builds |-> builds + 1]
        ELSE [result |-> TRUE, pipeline |-> pipeline, builds |-> builds]

\* initialize_kokoro(): KPipeline(lang_code='a') returns or raises
initialize_kokoro(ok) ==
  IF ok THEN [result |-> TRUE, pipeline |-> "KPipeline", builds |-> builds + 1]
        ELSE [result |-> FALSE, pipeline |-> pipeline, builds |-> builds]

\* variant: the pre-load loop loads every .pt file
PreloadWanted_all(stem) == TRUE

\* the filter of the pre-load loop
PreloadWanted(stem) == stem \in Selected

Boot ==
  /\ phase = "boot"
  /\ \E ok \in BOOLEAN :
       LET r == initialize_kokoro(ok) IN
       /\ pipeline' = r.pipeline
       /\ builds' = r.builds
       /\ IF r.result
            THEN /\ phase' = "preload"
                 /\ todo' = disk
                 /\ exit_status' = exit_status
            ELSE /\ phase' = "exited"
                 /\ todo' = todo
                 /\ exit_status' = 1
  /\ UNCHANGED <<disk, voice_tensors, loads, handler, gen_vars>>

(* ------------------------------------------------------------------ *)
(* load_voice(voice_name)                                              *)
(* ------------------------------------------------------------------ *)
\* variant: the cache is never consulted
CacheHit_never(voice_name) == FALSE

\* `if voice_name in voice_tensors`
CacheHit(voice_name) == voice_tensors[voice_name] # NoTensor

\* `voice_path.exists()`
FileExists(voice_name) == voice_name \in disk

\* `voice_tensors[voice_name] = voice_tensor`
Store(cache, voice_name, voice_tensor) == [cache EXCEPT ![voice_name] = voice_tensor]

\* One iteration of `for voice_file in VOICES_DIR.glob('*.pt')`: a selected stem is
\* loaded through load_voice, an exception is only logged as a warning.
Preload ==
  /\ phase = "preload"
  /\ \E f \in todo :
       /\ todo' = todo \ {f}
       /\ IF PreloadWanted(f) /\ ~CacheHit(f) /\ FileExists(f)
            THEN \E ok \in BOOLEAN :
                   IF ok /\ loads < MaxLoads
                     THEN /\ loads' = loads + 1
                          /\ voice_tensors' = Store(voice_tensors, f, loads + 1)
                     ELSE UNCHANGED <<loads, voice_tensors>>
            ELSE UNCHANGED <<loads, voice_tensors>>
  /\ UNCHANGED <<phase, pipeline, builds, exit_status, disk, handler, gen_vars>>

\* the loop is over: app.run(host='0.0.0.0', port=8765, threaded=True)
Serve ==
  /\ phase = "preload"
  /\ todo = {}
  /\ phase' = "serving"
  /\ UNCHANGED <<pipeline, builds, exit_status, disk, todo, voice_tensors, loads,
                 handler, gen_vars>>

(* ------------------------------------------------------------------ *)
(* POST /generate: request parsing and validation (lines 79-103)       *)
(* ------------------------------------------------------------------ *)
\* request.get_json(force=True, silent=True): None when the body does not parse
get_json(r) == IF r.body = "unparsable" THEN None ELSE r.body

\* Python truth value of the parsed body and of the text
Falsy(x) == x \in {None, "null", "empty_object", "empty_str"}

\* only a dict has .get; anything else raises AttributeError
IsDict(data) == data \in {"object", "empty_object"}

\* data.get(key, default)
DictGet(value, default) == IF value = Absent THEN default ELSE value

\* float(x): the exception it raises, or "none"
FloatRaises(x) ==
  CASE x = "fast" -> "ValueError"
    [] x = "null" -> "TypeError"
    [] x = "10^400" -> "OverflowError"
    [] OTHER -> "none"

\* variant: `except ValueError` alone
SpeedCaught_value == {"ValueError"}

\* the exceptions the inner `except (ValueError, TypeError)` catches
SpeedCaught == {"ValueError", "TypeError"}

\* try: speed = float(data.get('speed', 0.9)) except (ValueError, TypeError): speed = 0.9
ParseSpeed(value) ==
  LET x == DictGet(value, "0.9")
      e == FloatRaises(x)
  IN  IF e = "none" THEN [raised |-> "none", speed |-> x]
      ELSE IF e \in SpeedCaught THEN [raised |-> "none", speed |-> "0.9"]
      ELSE [raised |-> e, speed |-> ""]

\* variant: the voice name is not validated
VoiceAllowed_any(voice) == TRUE

\* `voice not in ['af_aoede', 'af_kore']`
VoiceAllowed(voice) == voice \in Selected

\* text.replace('AIRA', ...) exists only on a str
IsStr(text) == text \in {"str", "empty_str"}

\* Lines 79-103 of generate(): the status answered before load_voice is reached,
\* or 0 when the handler goes on to load the voice.
Validate(r) ==
  IF pipeline = None THEN [status |-> 503, voice |-> "", speed |-> ""]
  ELSE LET data == get_json(r) IN
    IF Falsy(data) THEN [status |-> 400, voice |-> "", speed |-> ""]
    ELSE IF ~IsDict(data) THEN [status |-> 500, voice |-> "", speed |-> ""]
    ELSE LET text == DictGet(r.text, "empty_str")
             voice == DictGet(r.voice, "af_aoede")
             sp == ParseSpeed(r.speed)
         IN  IF sp.raised # "none" THEN [status |-> 500, voice |-> "", speed |-> ""]
             ELSE IF Falsy(text) THEN [status |-> 400, voice |-> "", speed |-> ""]
             ELSE IF ~VoiceAllowed(voice) THEN [status |-> 400, voice |-> "", speed |-> ""]
             ELSE IF ~IsStr(text) THEN [status |-> 500, voice |-> "", speed |-> ""]
             ELSE [status |-> 0, voice |-> voice, speed |-> sp.speed]

\* jsonify({...}), status   /   Response(audio_data, mimetype='audio/wav')
Reply(h, status, failed) ==
  [h EXCEPT !.pc = "done", !.status = status, !.failed = failed,
            !.mimetype = IF status = 200 THEN "audio/wav" ELSE "application/json",
            !.body = IF status = 200 THEN "audio" ELSE "error",
            !.voice = "", !.speed = "", !.voice_tensor = NoTensor, !.audio_segments = 0]

\* variant: every error of the handler answers 404
StageError_404(stage) == 404

\* the status each `except` clause (and `if not audio_segments`) of generate answers
StageError(stage) ==
  IF stage \in {"load_voice", "torch_load"} THEN 404 ELSE 500

\* variant: the empty list of chunks is not detected
NoAudio_never(audio_segments) == FALSE

\* `if not audio_segments`
NoAudio(audio_segments) == audio_segments = 0

Started(h, stage) == [h EXCEPT !.stages = Append(@, stage)]

frame == <<phase, pipeline, builds, exit_status, disk, todo, gen_vars>>

\* a client's POST /generate reaches worker thread t
Receive(t) ==
  /\ phase = "serving"
  /\ handler[t].pc = "idle"
  /\ \E r \in Requests :
       handler' = [handler EXCEPT ![t] =
         [Idle EXCEPT !.pc = "received", !.route = "/generate", !.req = r]]
  /\ UNCHANGED <<frame, voice_tensors, loads>>

\* lines 79-103
Check(t) ==
  /\ handler[t].pc = "received"
  /\ LET v == Validate(handler[t].req)
         h == [handler[t] EXCEPT !.req = NoReq]
     IN  handler' = [handler EXCEPT ![t] =
           IF v.status # 0 THEN Reply(h, v.status, "request")
           ELSE [h EXCEPT !.pc = "load_voice", !.voice = v.voice, !.speed = v.speed]]
  /\ UNCHANGED <<frame, voice_tensors, loads>>

\* load_voice lines 53-58: cache lookup, then the existence test of the file
LoadLookup(t) ==
  /\ handler[t].pc = "load_voice"
  /\ LET h == Started(handler[t], "load_voice") IN
     handler' = [handler EXCEPT ![t] =
       IF CacheHit(h.voice)
         THEN [h EXCEPT !.pc = "pipeline", !.voice_tensor = voice_tensors[h.voice]]
       ELSE IF ~FileExists(h.voice) THEN Reply(h, StageError("load_voice"), "load_voice")
       ELSE [h EXCEPT !.pc = "torch_load"]]
  /\ UNCHANGED <<frame, voice_tensors, loads>>

\* load_voice line 61: torch.load returns a new tensor object or raises
TorchLoad(t) ==
  /\ handler[t].pc = "torch_load"
  /\ LET h == Started(handler[t], "torch_load") IN
     \E ok \in BOOLEAN :
       IF ok
         THEN /\ loads < MaxLoads
              /\ loads' = loads + 1
              /\ handler' = [handler EXCEPT ![t] =
                   [h EXCEPT !.pc = "store", !.voice_tensor = loads + 1]]
         ELSE /\ loads' = loads
              /\ handler' = [handler EXCEPT ![t] =
                   Reply(h, StageError("torch_load"), "torch_load")]
  /\ UNCHANGED <<frame, voice_tensors>>

\* load_voice lines 62-64: store in the cache and return the tensor
StoreVoice(t) ==
  /\ handler[t].pc = "store"
  /\ LET h == Started(handler[t], "store") IN
     /\ voice_tensors' = Store(voice_tensors, h.voice, h.voice_tensor)
     /\ handler' = [handler EXCEPT ![t] = [h EXCEPT !.pc = "pipeline"]]
  /\ UNCHANGED <<frame, loads>>

\* line 115: generator = pipeline(processed_text, voice=voice_tensor, speed=speed)
CallPipeline(t) ==
  /\ handler[t].pc = "pipeline"
  /\ LET h == Started(handler[t], "pipeline") IN
     \E ok \in BOOLEAN :
       handler' = [handler EXCEPT ![t] =
         IF ok THEN [h EXCEPT !.pc = "iterate", !.voice = "", !.speed = "",
                              !.voice_tensor = NoTensor]
         ELSE Reply(h, StageError("pipeline"), "pipeline")]
  /\ UNCHANGED <<frame, voice_tensors, loads>>

\* lines 123-134: collect the chunks; an exception or an empty list answers 500
Iterate(t) ==
  /\ handler[t].pc = "iterate"
  /\ LET h == Started(handler[t], "iterate") IN
     \E ok \in BOOLEAN, n \in 0..MaxChunks :
       handler' = [handler EXCEPT ![t] =
         IF ~ok THEN Reply(h, StageError("iterate"), "iterate")
         ELSE IF NoAudio(n) THEN Reply(h, StageError("no_audio"), "no_audio")
         ELSE [h EXCEPT !.pc = "cat", !.audio_segments = n]]
  /\ UNCHANGED <<frame, voice_tensors, loads>>

\* lines 137-141: torch.cat(audio_segments, dim=0).numpy()
Concatenate(t) ==
  /\ handler[t].pc = "cat"
  /\ LET h == Started(handler[t], "cat") IN
     \E ok \in BOOLEAN :
       handler' = [handler EXCEPT ![t] =
         IF ok THEN [h EXCEPT !.pc = "wav", !.audio_segments = 0]
         ELSE Reply(h, StageError("cat"), "cat")]
  /\ UNCHANGED <<frame, voice_tensors, loads>>

\* lines 144-165: sf.write into the buffer, then the audio/wav Response
EncodeWav(t) ==
  /\ handler[t].pc = "wav"
  /\ LET h == Started(handler[t], "wav") IN
     \E ok \in BOOLEAN :
       handler' = [handler EXCEPT ![t] =
         IF ok THEN Reply(h, 200, "") ELSE Reply(h, StageError("wav"), "wav")]
  /\ UNCHANGED <<frame, voice_tensors, loads>>

(* ------------------------------------------------------------------ *)
(* GET /health and GET /voices                                         *)
(* ------------------------------------------------------------------ *)
health == IF pipeline # None THEN "ready" ELSE "not_ready"

Health(t) ==
  /\ phase = "serving"
  /\ handler[t].pc = "idle"
  /\ handler' = [handler EXCEPT ![t] =
       [Idle EXCEPT !.pc = "done", !.route = "/health", !.status = 200,
                    !.mimetype = "application/json", !.body = health]]
  /\ UNCHANGED <<frame, voice_tensors, loads>>

\* list_voices(): {'voices': [stems of VOICES_DIR.glob('*.pt')]}, or 500 when the
\* directory cannot be read
Voices(t) ==
  /\ phase = "serving"
  /\ handler[t].pc = "idle"
  /\ \E ok \in BOOLEAN :
       handler' = [handler EXCEPT ![t] =
         [Idle EXCEPT !.pc = "done", !.route = "/voices",
                      !.status = IF ok THEN 200 ELSE 500,
                      !.mimetype = "application/json",
                      !.body = IF ok THEN "voices" ELSE "error"]]
  /\ UNCHANGED <<frame, voice_tensors, loads>>

\* the response has been sent; the worker thread is free again
Finish(t) ==
  /\ handler[t].pc = "done"
  /\ handler' = [handler EXCEPT ![t] = Idle]
  /\ UNCHANGED <<frame, voice_tensors, loads>>

Generate(t) ==
  \/ Receive(t) \/ Check(t) \/ LoadLookup(t) \/ TorchLoad(t) \/ StoreVoice(t)
  \/ CallPipeline(t) \/ Iterate(t) \/ Concatenate(t) \/ EncodeWav(t)

Request(t) == Generate(t) \/ Health(t) \/ Voices(t) \/ Finish(t)

Next ==
  \/ Boot \/ Preload \/ Serve
  \/ \E t \in Threads : Request(t)

Spec == Init /\ [][Next]_vars

\* One request at a time: a thread takes a step only while every other is idle.
NextSeq ==
  \/ Boot \/ Preload \/ Serve
  \/ \E t \in Threads :
       /\ \A u \in Threads \ {t} : handler[u].pc = "idle"
       /\ Request(t)

SpecSeq == Init /\ [][NextSeq]_vars

(* ------------------------------------------------------------------ *)
(* generate_aira_samples.py                                            *)
(* ------------------------------------------------------------------ *)
\* File names are sequences of tokens; ".pt" and ".wav" are the extensions and
\* "." is a leading dot.
FileNames ==
  { <<"af_aoede", ".pt">>, <<"af_kore", ".pt">>, <<"af_bella", ".pt">>,
    <<"af_kore", ".pt", ".pt">>, <<".", "af_aoede", ".pt">>, <<"af_kore", ".wav">> }

SELECTED_VOICES == { <<"af_aoede">>, <<"af_kore">> }

\* keys of the dict get_aira_texts() returns
get_aira_texts == {"phonetic", "phonetic_spelled", "simple", "context"}

\* variant: text_to_use = texts['simple']
TextToUse_simple == "simple"

\* text_to_use = texts['phonetic']
TextToUse == "phonetic"

\* file.endswith('.pt') and not file.startswith('.')
IsVoiceFile(file) ==
  /\ file[Len(file)] = ".pt"
  /\ file[1] \notin {".", ".pt", ".wav"}

\* file.replace('.pt', ''): every occurrence goes
StripPt(file) == SelectSeq(file, LAMBDA tok : tok # ".pt")

\* order of the names under sorted(): by token, a proper prefix first
TokRank(tok) ==
  CASE tok = "af_aoede" -> 1 [] tok = "af_bella" -> 2 [] tok = "af_kore" -> 3 [] OTHER -> 0

RECURSIVE NameLess(_, _)
NameLess(a, b) ==
  IF b = <<>> THEN FALSE
  ELSE IF a = <<>> THEN TRUE
  ELSE IF TokRank(Head(a)) # TokRank(Head(b)) THEN TokRank(Head(a)) < TokRank(Head(b))
  ELSE NameLess(Tail(a), Tail(b))

\* list_voices(): the possible results, sorted by name; files that share a name
\* keep the order os.listdir gave them, which is arbitrary
list_voices ==
  LET entries == { [name |-> StripPt(f), path |-> f] : f \in {g \in listing : IsVoiceFile(g)} }
      n == Cardinality(entries)
  IN  { s \in [1..n -> entries] :
          /\ \A i, j \in 1..n : i # j => s[i] # s[j]
          /\ \A i, j \in 1..n : i < j => ~NameLess(s[j].name, s[i].name) }

\* variant: no filter, every listed voice is used
IsSelected_all(name) == TRUE

\* v['name'] in SELECTED_VOICES
IsSelected(name) == name \in SELECTED_VOICES

\* the outcomes the environment can give one loop iteration
Fates == {"load_raises", "pipeline_raises", "iterate_raises", "no_audio", "cat_raises",
          "write_raises", "getsize_raises", "ok"}

\* filename of generate_with_voice
Filename(voice_name, version_name) ==
  IF version_name = "" THEN voice_name \o <<"_aira_only1.wav">>
  ELSE voice_name \o <<"_aira_", version_name, ".wav">>

\* generate_with_voice(pipeline, text, voice_tensor, voice_name, version_name=""):
\* the dict it returns and the file it has written, if any
generate_with_voice(voice_name, version_name, fate) ==
  IF fate \in {"pipeline_raises", "iterate_raises", "no_audio", "cat_raises", "write_raises"}
    THEN [success |-> FALSE, file |-> <<>>, wrote |-> {}]
  ELSE IF fate = "getsize_raises"
    THEN [success |-> FALSE, file |-> <<>>, wrote |-> {Filename(voice_name, version_name)}]
  ELSE [success |-> TRUE, file |-> Filename(voice_name, version_name),
        wrote |-> {Filename(voice_name, version_name)}]

InitGen ==
  /\ phase = "off" /\ pipeline = None /\ builds = 0 /\ exit_status = -1
  /\ disk = {} /\ todo = {} /\ voice_tensors = [v \in VoiceFiles |-> NoTensor]
  /\ loads = 0 /\ handler = [t \in Threads |-> Idle]
  /\ gpc = "start"
  /\ listing \in SUBSET FileNames
  /\ voices = <<>> /\ idx = 0 /\ results = <<>> /\ written = {} /\ fed = {}
  /\ passed = {} /\ calls = 0 /\ log = <<>> /\ gexit = -1

\* lines 85-92: setup_folders() and pipeline = KPipeline(lang_code='a'); an exception
\* is caught by the outer `except Exception`, which prints it and lets the script
\* end normally
GStart ==
  /\ gpc = "start"
  /\ \E ok \in BOOLEAN :
       IF ok THEN gpc' = "list" /\ gexit' = gexit /\ pipeline' = "KPipeline"
             ELSE gpc' = "done" /\ gexit' = 0 /\ pipeline' = pipeline
  /\ UNCHANGED <<phase, builds, exit_status, disk, todo, voice_tensors, loads, handler,
                 listing, voices, idx, results, written, fed, passed, calls, log>>

\* lines 96-124: list, filter, exit(1) when nothing is left (SystemExit is no
\* Exception, the outer handler lets it through)
GList ==
  /\ gpc = "list"
  /\ \E all_voices \in list_voices :
       LET vs == SelectSeq(all_voices, LAMBDA v : IsSelected(v.name)) IN
       /\ voices' = vs
       /\ IF vs = <<>> THEN gpc' = "done" /\ gexit' = 1 /\ idx' = idx
                       ELSE gpc' = "loop" /\ gexit' = gexit /\ idx' = 1
  /\ UNCHANGED <<server_vars, listing, results, written, fed, passed, calls, log>>

\* lines 125-145: one iteration of the loop over voices
GVoice ==
  /\ gpc = "loop"
  /\ idx <= Len(voices)
  /\ \E fate \in Fates, n \in 1..MaxChunks :
       LET voice_name == voices[idx].name
           chunks == IF fate \in {"load_raises", "pipeline_raises", "iterate_raises", "no_audio"}
                       THEN 0 ELSE n
           result == generate_with_voice(voice_name, "", fate)
       IN
       /\ log' = Append(log, [name |-> voice_name, fate |-> fate, chunks |-> chunks])
       /\ IF fate = "load_raises"
            THEN UNCHANGED <<results, written, fed, passed, calls>>
            ELSE /\ calls' = calls + 1
                 /\ fed' = fed \cup {TextToUse}
                 /\ passed' = passed \cup {voice_name}
                 /\ written' = written \cup result.wrote
                 /\ results' = IF result.success THEN Append(results, result.file)
                                                 ELSE results
  /\ idx' = idx + 1
  /\ UNCHANGED <<server_vars, gpc, listing, voices, gexit>>

\* lines 147-159: the summary; the script ends
GSummary ==
  /\ gpc = "loop"
  /\ idx > Len(voices)
  /\ gpc' = "done"
  /\ gexit' = 0
  /\ UNCHANGED <<server_vars, listing, voices, idx, results, written, fed, passed, calls, log>>

NextGen == GStart \/ GList \/ GVoice \/ GSummary

SpecGen == InitGen /\ [][NextGen]_vars

\* the script is one sequential process: it takes its next step whenever it has one
FairSpecGen == SpecGen /\ WF_vars(NextGen)

(* ================================================================== *)
(* Properties of the server                                            *)
(* ================================================================== *)
Cached == {v \in VoiceFiles : voice_tensors[v] # NoTensor}

Generating(t) == handler[t].route = "/generate"

\* C1: load-once over a sequence of load_voice calls. Once voice_tensors holds an
\* entry for v, every load_voice(v) returns that very tensor without torch.load
\* being called, and the entry is neither replaced nor removed.
C1_LoadOnce ==
  /\ [](\A t \in Threads :
          handler[t].pc \in {"torch_load", "store"} => ~CacheHit(handler[t].voice))
  /\ [][\A v \in Cached :
          /\ voice_tensors'[v] = voice_tensors[v]
          /\ \A t \in Threads :
               (handler[t].pc = "load_voice" /\ handler[t].voice = v
                  /\ handler'[t] # handler[t])
               => /\ handler'[t].pc = "pipeline"
                  /\ handler'[t].voice_tensor = voice_tensors[v]
                  /\ loads' = loads]_vars

\* a load_voice call that was answered from the cache
C1_Witness ==
  \E t \in Threads :
    /\ handler[t].pc = "pipeline"
    /\ handler[t].stages = <<"load_voice">>
    /\ handler[t].voice_tensor = voice_tensors[handler[t].voice]

\* C2: under threaded request handling, requests that name the same voice all use
\* the same tensor object (the voice file having been read once).
C2_SameTensor ==
  \A t, u \in Threads :
    (handler[t].pc = "pipeline" /\ handler[u].pc = "pipeline"
       /\ handler[t].voice = handler[u].voice)
    => handler[t].voice_tensor = handler[u].voice_tensor

\* C3, as stated: a voice enters voice_tensors only by the store of a /generate
\* request that names it and missed the cache.
C3_LazyOnly ==
  [][\A v \in VoiceFiles :
       (voice_tensors[v] = NoTensor /\ voice_tensors'[v] # NoTensor)
       => \E t \in Threads :
            /\ Generating(t) /\ handler[t].pc = "store" /\ handler[t].voice = v
            /\ handler'[t].pc = "pipeline"]_vars

\* C3, amended: a voice enters voice_tensors either in the start-up pre-load loop,
\* for a selected voice whose file is present and before any request is handled,
\* or by the store of a /generate request that names it and missed the cache.
C3_LoadSources ==
  [][\A v \in VoiceFiles :
       (voice_tensors[v] = NoTensor /\ voice_tensors'[v] # NoTensor)
       => \/ /\ phase = "preload" /\ v \in Selected /\ v \in disk
             /\ \A t \in Threads : handler[t].pc = "idle"
          \/ /\ phase = "serving"
             /\ \E t \in Threads :
                  /\ Generating(t) /\ handler[t].pc = "store" /\ handler[t].voice = v
                  /\ handler[t].stages = <<"load_voice", "torch_load">>
                  /\ handler'[t].pc = "pipeline"]_vars

\* one voice cached by the pre-load loop, another by a request
C3_Witness ==
  /\ phase = "serving"
  /\ Cardinality(Cached) = 2
  /\ \E t \in Threads :
       /\ handler[t].pc = "pipeline"
       /\ handler[t].stages = <<"load_voice", "torch_load", "store">>

\* C4: the pipeline is constructed once, before any request is handled; a failed
\* construction ends the process with status 1 and no request served; no request
\* is answered 503 and /health never says not_ready.
C4_PipelineOnce ==
  /\ builds <= 1
  /\ phase \in {"preload", "serving"} => (pipeline # None /\ builds = 1 /\ exit_status = -1)
  /\ phase = "exited" => (pipeline = None /\ builds = 0 /\ exit_status = 1)
  /\ \A t \in Threads :
       /\ handler[t].pc # "idle" => (phase = "serving" /\ pipeline # None)
       /\ handler[t].status # 503
       /\ handler[t].body # "not_ready"

\* a /health request answered by the running server
C4_Witness ==
  \E t \in Threads :
    /\ handler[t].pc = "done" /\ handler[t].route = "/health"
    /\ handler[t].body = "ready"

\* the stages of the control flow, in the order of the handler
StageRank(stage) ==
  CASE stage = "load_voice" -> 1 [] stage = "torch_load" -> 2 [] stage = "store" -> 3
    [] stage = "pipeline" -> 4 [] stage = "iterate" -> 5 [] stage = "cat" -> 6
    [] stage = "wav" -> 7

InOrder(st) == \A i, j \in 1..Len(st) : i < j => StageRank(st[i]) < StageRank(st[j])

Has(st, stage) == \E i \in 1..Len(st) : st[i] = stage

\* C5: 200 audio/wav is answered only after cache lookup (with load on miss),
\* pipeline call, iteration with at least one chunk, concatenation and WAV
\* encoding have succeeded in this order; each stage is started only after the
\* one before it succeeded, nothing is started after a failure, and a request
\* whose stages all succeed is answered 200.
C5_StagesInOrder ==
  /\ [](\A t \in Threads : Generating(t) =>
          LET h == handler[t] IN
          /\ InOrder(h.stages)
          /\ Has(h.stages, "wav") => Has(h.stages, "cat")
          /\ Has(h.stages, "cat") => Has(h.stages, "iterate")
          /\ Has(h.stages, "iterate") => Has(h.stages, "pipeline")
          /\ Has(h.stages, "pipeline") => Has(h.stages, "load_voice")
          /\ Has(h.stages, "store") => Has(h.stages, "torch_load")
          /\ Has(h.stages, "torch_load") => Has(h.stages, "load_voice")
          /\ h.pc = "cat" => h.audio_segments >= 1
          /\ h.pc = "pipeline" => h.voice_tensor # NoTensor
          /\ (h.failed \notin {"", "request", "no_audio"})
               => (h.pc = "done" /\ h.stages[Len(h.stages)] = h.failed)
          /\ h.failed = "no_audio" => (h.pc = "done" /\ h.stages[Len(h.stages)] = "iterate")
          /\ h.failed = "request" => (h.pc = "done" /\ h.stages = <<>>)
          /\ h.status = 200 =>
               /\ h.pc = "done" /\ h.failed = "" /\ h.mimetype = "audio/wav"
               /\ h.stages \in { <<"load_voice", "pipeline", "iterate", "cat", "wav">>,
                                 <<"load_voice", "torch_load", "store", "pipeline",
                                   "iterate", "cat", "wav">> }
          /\ (h.pc = "done" /\ h.failed = "") => h.status = 200)
  /\ [][\A t \in Threads :
          (handler[t].pc = "done" /\ handler'[t] # handler[t]) => handler'[t] = Idle]_vars

\* a request answered 200 after a load on miss
C5_Witness ==
  \E t \in Threads :
    /\ handler[t].status = 200
    /\ Has(handler[t].stages, "store")

\* ---- C8 ----
\* the checks of the claim, in its order, for a body whose values have the
\* expected JSON types; 0: the request passes on to the voice load
ListedStatus(r) ==
  IF pipeline = None THEN 503
  ELSE IF r.body \in {"unparsable", "null", "empty_object"} THEN 400
  ELSE IF r.text \in {Absent, "empty_str"} THEN 400
  ELSE IF r.voice \notin {Absent, "af_aoede", "af_kore"} THEN 400
  ELSE 0

\* requests that raise none of the exceptions left to the catch-all handler
WellTyped(r) ==
  /\ r.body # "array"
  /\ r.text # "number"
  /\ r.speed # "10^400"

C9_FrameOfErrors ==
  /\ [](\A t \in Threads :
          (Generating(t) /\ handler[t].pc = "done" /\ handler[t].status \in {503, 400, 404})
          => /\ ~Has(handler[t].stages, "store")
             /\ ~Has(handler[t].stages, "pipeline"))
  /\ [][\A t \in Threads :
          /\ (handler'[t] # handler[t] /\ handler'[t].pc = "done"
                /\ handler'[t].status \in {503, 400, 404})
             => voice_tensors' = voice_tensors
          /\ (handler[t].pc = "load_voice" /\ handler'[t] # handler[t]
                /\ ~CacheHit(handler[t].voice) /\ FileExists(handler[t].voice))
             => handler'[t].pc = "torch_load"]_vars
  /\ [][(phase = "serving" /\ voice_tensors' # voice_tensors) =>
          \E t \in Threads :
            /\ handler[t].pc = "store" /\ handler'[t].pc = "pipeline"
            /\ handler[t].stages = <<"load_voice", "torch_load">>
            /\ voice_tensors' = [voice_tensors EXCEPT
                                   ![handler[t].voice] = handler[t].voice_tensor]]_vars

\* after a load that failed with 404, another request is loading the same file
C9_Witness ==
  \E t, u \in Threads :
    /\ handler[t].pc = "done" /\ handler[t].status = 404
    /\ handler[t].failed = "torch_load"
    /\ handler[u].pc = "store"
    /\ Cached = {}

\* ---- C10 ----
\* C10: the keys of voice_tensors are always among af_aoede and af_kore, so there
\* are at most two; /health and /voices change neither voice_tensors nor pipeline.
C10_CacheKeys ==
  /\ [](Cached \subseteq Selected /\ Cardinality(Cached) <= 2)
  /\ [][\A t \in Threads :
          (handler'[t] # handler[t] /\ handler'[t].route \in {"/health", "/voices"})
          => (voice_tensors' = voice_tensors /\ pipeline' = pipeline)]_vars

\* both voices cached, a request for another .pt file of the directory refused
C10_Witness ==
  /\ Cached = Selected
  /\ "af_bella" \in disk
  /\ \E t, u \in Threads :
       /\ handler[t].pc = "done" /\ handler[t].route = "/voices"
       /\ handler[u].pc = "done" /\ handler[u].status = 400

Visited(fates) == {k \in 1..Len(log) : log[k].fate \in fates}

SelectedPresent ==
  \E f \in listing : IsVoiceFile(f) /\ StripPt(f) \in SELECTED_VOICES

GenCommon ==
  /\ passed \subseteq SELECTED_VOICES
  /\ \A k \in 1..Len(log) : log[k].name \in SELECTED_VOICES
  /\ Len(results) <= Len(voices)
  /\ Len(log) <= Len(voices)
  /\ gpc = "done" => gexit \in {0, 1}
  /\ gpc # "done" => gexit = -1

\* C7, as stated: at the end of a run the files written are those of the selected
\* voices that are present, load and yield at least one chunk; no other voice
\* reaches the pipeline; results never outnumber the selected voices; with no
\* selected voice present the run exits 1 without invoking the pipeline.
C7_AsStated ==
  gpc = "done" =>
    /\ written = { Filename(log[k].name, "") :
                     k \in {j \in 1..Len(log) : log[j].chunks >= 1} }
    /\ GenCommon
    /\ ~SelectedPresent => (gexit = 1 /\ calls = 0)

\* C7, amended: every run ends; the files written are those of the selected
\* voices listed whose tensor loads, whose generation yields at least one chunk
\* and whose concatenation and write succeed; a failing voice does not stop the
\* others; with no selected voice listed, and set-up and pipeline construction
\* done, the run exits 1 without invoking the pipeline (0 when they fail).
C7_Generator ==
  /\ <>(gpc = "done")
  /\ [](/\ GenCommon
        /\ written = { Filename(log[k].name, "") : k \in Visited({"getsize_raises", "ok"}) }
        /\ Len(results) = Cardinality(Visited({"ok"}))
        /\ calls = Cardinality(Visited(Fates \ {"load_raises"}))
        /\ (gpc = "done" /\ pipeline # None /\ SelectedPresent)
             => (gexit = 0 /\ Len(log) = Len(voices) /\ voices # <<>>)
        /\ (gpc = "done" /\ pipeline # None /\ ~SelectedPresent)
             => (gexit = 1 /\ calls = 0 /\ written = {})
        /\ (gpc = "done" /\ pipeline = None) => (gexit = 0 /\ calls = 0 /\ written = {}))

\* a run in which one voice failed to load and a later one was written
C7_Witness ==
  /\ gpc = "done"
  /\ \E j, k \in 1..Len(log) :
       j < k /\ log[j].fate = "load_raises" /\ log[k].fate = "ok"
  /\ Cardinality(written) = 1

====
